---- MODULE Spec2Model ----
(***************************************************************************)
(* A model of the limit order book of src/orderbook.py: the Order objects, *)
(* the two side books with their sorted price lists, the order map, and    *)
(* the add_order / cancel_order operations with the matching loop of       *)
(* _match_order taken one loop iteration at a time.                        *)
(***************************************************************************)
EXTENDS Integers, Sequences, FiniteSets, TLC

\* Bounds of the model: how many orders are ever created, and the ranges
\* the prices (in ticks) and quantities of add_order are drawn from.
MaxOrders == 4
MaxPrice == 2
MaxQty == 2

\* Python's None as returned by the market-data accessors; every price the
\* book holds is > 0 (add_order's validation), so 0 is free to stand for it.
None == 0

\* float('nan'), as the one object math.nan: a price add_order's validation
\* lets through (nan <= 0 is False). It is no price of the range 0..MaxPrice,
\* and every comparison with it is False (see lt, le, ge).
NaN == MaxPrice + 1

VARIABLES
    orders,            \* the Order objects still referenced: id -> fields
    order_id_counter,  \* the next value of itertools.count(1)
    bids,              \* OrderBook.bids: price -> deque of order ids
    asks,              \* OrderBook.asks: price -> deque of order ids
    bid_prices,        \* OrderBook.bid_prices: negated prices, ascending
    ask_prices,        \* OrderBook.ask_prices: prices, ascending
    order_map,         \* OrderBook.order_map: the ids that are keys
    pc,                \* where the running add_order is ("idle": no call)
    order,             \* _match_order's `order`: the incoming order's id
    best_price,        \* _match_order's best_ask_price / best_bid_price
    trades,            \* the TRADE EXECUTED records printed by the last call
    call               \* the last call made on the book: the arguments of an
                       \* accepted add_order with the id it returns, the
                       \* result, and for a cancel_order its argument and
                       \* whether the call before it was the same (repeat)

vars == <<orders, order_id_counter, bids, asks, bid_prices, ask_prices,
          order_map, pc, order, best_price, trades, call>>

book == <<bids, asks, bid_prices, ask_prices, order_map>>

\* The arguments add_order and cancel_order are called with: valid ones and
\* ones the validation rejects.
Sides == {"buy", "sell", "hold"}
Prices == 0..MaxPrice
Quantities == 0..MaxQty
OrderIds == 1..(MaxOrders + 1)

\* Arguments the validation rejects: one triple for each of its three tests,
\* and one that fails them all.
InvalidArgs ==
    {<<"hold", 1, 1>>, <<"buy", 0, 1>>, <<"sell", 1, 0>>, <<"hold", 0, 0>>}

----------------------------------------------------------------------------
\* Pure helpers: the library calls the book makes.

min(a, b) == IF a <= b THEN a ELSE b

\* Python's <, <=, >=, unary -, + and - on prices: any comparison with nan is
\* False, and any arithmetic with nan gives nan.
lt(a, b) == a # NaN /\ b # NaN /\ a < b
le(a, b) == a # NaN /\ b # NaN /\ a <= b
ge(a, b) == a # NaN /\ b # NaN /\ a >= b
neg(a) == IF a = NaN THEN NaN ELSE -a
add(a, b) == IF a = NaN \/ b = NaN THEN NaN ELSE a + b
sub(a, b) == IF a = NaN \/ b = NaN THEN NaN ELSE a - b

\* bisect.bisect_right(a, x): binary search on the 0-based list a.
RECURSIVE bisect_right(_, _, _, _)
bisect_right(a, x, lo, hi) ==
    IF lo < hi
    THEN LET mid == (lo + hi) \div 2
         IN  IF lt(x, a[mid + 1])
             THEN bisect_right(a, x, lo, mid)
             ELSE bisect_right(a, x, mid + 1, hi)
    ELSE lo

\* A faulty insort that appends without searching; C9 must not survive it.
insort_append(a, x) == Append(a, x)

\* bisect.insort(price_list, price)
insort(a, x) ==
    LET k == bisect_right(a, x, 0, Len(a))
    IN  SubSeq(a, 1, k) \o <<x>> \o SubSeq(a, k + 1, Len(a))

\* list.remove(x): drops the first occurrence. Python raises ValueError when
\* x is absent; here the CHOOSE then has no value and TLC stops with an error.
list_remove(a, x) ==
    LET i == CHOOSE i \in 1..Len(a) : a[i] = x /\ \A j \in 1..(i - 1) : a[j] # x
    IN  SubSeq(a, 1, i - 1) \o SubSeq(a, i + 1, Len(a))

\* A faulty first_entry that reads the far end of the list; C2 must not
\* survive it.
last_entry(a) == a[Len(a)]

\* price_list[0]: the head of a sorted price list
first_entry(a) == a[1]

\* A faulty deque_append that queues at the head; C1 must not survive it.
append_left(q, id) == <<id>> \o q

\* deque.append(order)
deque_append(q, id) == Append(q, id)

\* deque.popleft()
popleft(q) == Tail(q)

\* dict with one key set / one key deleted
dict_set(d, k, v) == [x \in DOMAIN d \cup {k} |-> IF x = k THEN v ELSE d[x]]
dict_del(d, k) == [x \in DOMAIN d \ {k} |-> d[x]]

\* The Order objects after the objects in `gone` lost their last reference.
released(os, gone) == [i \in DOMAIN os \ gone |-> os[i]]

EmptyDict == [x \in {} |-> <<>>]

----------------------------------------------------------------------------
\* Order.__init__
NewOrder(side, price, quantity) ==
    [side |-> side, price |-> price, quantity |-> quantity, is_cancelled |-> FALSE]

Init ==
    /\ orders = [i \in {} |-> NewOrder("buy", 1, 1)]
    /\ order_id_counter = 1
    /\ bids = EmptyDict
    /\ asks = EmptyDict
    /\ bid_prices = <<>>
    /\ ask_prices = <<>>
    /\ order_map = {}
    /\ pc = "idle"
    /\ order = 0
    /\ best_price = 0
    /\ trades = <<>>
    /\ call = [op |-> "init", order_id |-> 0, side |-> "", price |-> 0,
               quantity |-> 0, result |-> "None", repeat |-> FALSE]

----------------------------------------------------------------------------
\* A faulty _add_to_book that files a bid price without negating it; C15
\* must not survive it.
_add_to_book_unnegated(id) ==
    /\ order_map' = order_map \cup {id}
    /\ IF orders[id].side = "buy"
       THEN /\ bid_prices' = IF orders[id].price \notin DOMAIN bids
                             THEN insort(bid_prices, orders[id].price)
                             ELSE bid_prices
            /\ bids' = dict_set(bids, orders[id].price,
                                deque_append(IF orders[id].price \in DOMAIN bids
                                             THEN bids[orders[id].price]
                                             ELSE <<>>, id))
            /\ UNCHANGED <<asks, ask_prices>>
       ELSE /\ ask_prices' = IF orders[id].price \notin DOMAIN asks
                             THEN insort(ask_prices, orders[id].price)
                             ELSE ask_prices
            /\ asks' = dict_set(asks, orders[id].price,
                                deque_append(IF orders[id].price \in DOMAIN asks
                                             THEN asks[orders[id].price]
                                             ELSE <<>>, id))
            /\ UNCHANGED <<bids, bid_prices>>

\* OrderBook._add_to_book(order)
_add_to_book(id) ==
    /\ order_map' = order_map \cup {id}
    /\ IF orders[id].side = "buy"
       THEN /\ bid_prices' = IF orders[id].price \notin DOMAIN bids
                             THEN insort(bid_prices, neg(orders[id].price))
                             ELSE bid_prices
            /\ bids' = dict_set(bids, orders[id].price,
                                deque_append(IF orders[id].price \in DOMAIN bids
                                             THEN bids[orders[id].price]
                                             ELSE <<>>, id))
            /\ UNCHANGED <<asks, ask_prices>>
       ELSE /\ ask_prices' = IF orders[id].price \notin DOMAIN asks
                             THEN insort(ask_prices, orders[id].price)
                             ELSE ask_prices
            /\ asks' = dict_set(asks, orders[id].price,
                                deque_append(IF orders[id].price \in DOMAIN asks
                                             THEN asks[orders[id].price]
                                             ELSE <<>>, id))
            /\ UNCHANGED <<bids, bid_prices>>

\* A faulty _remove_empty_price_level that removes nothing; C20 must not
\* survive it.
_remove_no_price_level(side, price) ==
    UNCHANGED <<bids, bid_prices, asks, ask_prices>>

\* OrderBook._remove_empty_price_level(side, price)
_remove_empty_price_level(side, price) ==
    IF side = "buy"
    THEN /\ IF price \in DOMAIN bids /\ bids[price] = <<>>
            THEN /\ bids' = dict_del(bids, price)
                 /\ bid_prices' = list_remove(bid_prices, neg(price))
            ELSE UNCHANGED <<bids, bid_prices>>
         /\ UNCHANGED <<asks, ask_prices>>
    ELSE IF side = "sell"
    THEN /\ IF price \in DOMAIN asks /\ asks[price] = <<>>
            THEN /\ asks' = dict_del(asks, price)
                 /\ ask_prices' = list_remove(ask_prices, price)
            ELSE UNCHANGED <<asks, ask_prices>>
         /\ UNCHANGED <<bids, bid_prices>>
    ELSE UNCHANGED <<bids, bid_prices, asks, ask_prices>>

----------------------------------------------------------------------------
\* A faulty Valid whose price test lets a price of 0 through; C11 must not
\* survive it.
Valid_zero_price(side, price, quantity) ==
    /\ side \in {"buy", "sell"}
    /\ price >= 0
    /\ quantity > 0

\* add_order: the validation of its three arguments.
Valid(side, price, quantity) ==
    /\ side \in {"buy", "sell"}
    /\ ~le(price, 0)
    /\ ~(quantity <= 0)

\* add_order with arguments the validation rejects: ValueError, before any
\* Order is constructed.
AddOrderRejected(side, price, quantity) ==
    /\ pc = "idle"
    /\ ~Valid(side, price, quantity)
    /\ call' = [op |-> "add_order", order_id |-> 0, side |-> "", price |-> 0,
                quantity |-> 0, result |-> "ValueError", repeat |-> FALSE]
    /\ trades' = <<>>
    /\ UNCHANGED <<orders, order_id_counter, book, pc, order, best_price>>

\* add_order with valid arguments: the Order is constructed with the next id
\* and _match_order is entered.
AddOrder(side, price, quantity) ==
    /\ pc = "idle"
    /\ Valid(side, price, quantity)
    /\ order_id_counter <= MaxOrders
    /\ orders' = dict_set(orders, order_id_counter,
                          NewOrder(side, price, quantity))
    /\ order_id_counter' = order_id_counter + 1
    /\ order' = order_id_counter
    /\ trades' = <<>>
    /\ call' = [op |-> "add_order", order_id |-> order_id_counter,
                side |-> side, price |-> price, quantity |-> quantity,
                result |-> "pending", repeat |-> FALSE]
    /\ pc' = "match"
    /\ UNCHANGED <<book, best_price>>

\* The test of the outer while loop of the buy branch and the selection of
\* the best ask level.
\* A faulty crosses_ask with the comparison turned round; C3 must not
\* survive it.
crosses_ask_inverted(price, best_ask) == price <= best_ask

crosses_ask(price, best_ask) == ge(price, best_ask)

BuyOuter ==
    /\ pc = "match"
    /\ orders[order].side = "buy"
    /\ IF /\ DOMAIN asks # {}
          /\ crosses_ask(orders[order].price, first_entry(ask_prices))
          /\ orders[order].quantity > 0
       THEN /\ best_price' = first_entry(ask_prices)
            /\ pc' = "level"
       ELSE /\ best_price' = 0
            /\ pc' = "rest"
    /\ UNCHANGED <<orders, order_id_counter, book, order, trades, call>>

\* The test of the outer while loop of the sell branch and the selection of
\* the best bid level.
\* A faulty crosses_bid that does not match at the limit price itself; C16
\* must not survive it.
crosses_bid_strict(price, best_bid) == price < best_bid

crosses_bid(price, best_bid) == le(price, best_bid)

SellOuter ==
    /\ pc = "match"
    /\ orders[order].side = "sell"
    /\ IF /\ DOMAIN bids # {}
          /\ crosses_bid(orders[order].price, neg(first_entry(bid_prices)))
          /\ orders[order].quantity > 0
       THEN /\ best_price' = neg(first_entry(bid_prices))
            /\ pc' = "level"
       ELSE /\ best_price' = 0
            /\ pc' = "rest"
    /\ UNCHANGED <<orders, order_id_counter, book, order, trades, call>>

\* A faulty discarded that never discards; C5 must not survive it.
discarded_never(o) == FALSE

\* if best_ask_order.is_cancelled: the head order is discarded, not traded
discarded(o) == o.is_cancelled

\* A faulty BuySweep without the continue: it goes on to trade with the
\* cancelled order it has popped; C17 must not survive it.
BuySweep_falls_through ==
    /\ pc = "level"
    /\ orders[order].side = "buy"
    /\ asks[best_price] # <<>>
    /\ orders[order].quantity > 0
    /\ discarded(orders[Head(asks[best_price])])
    /\ LET best_ask_order == Head(asks[best_price])
           tq == min(orders[order].quantity, orders[best_ask_order].quantity)
           shown(id, status) ==
               [id |-> id, status |-> status, side |-> orders[id].side,
                qty |-> orders[id].quantity, price |-> orders[id].price]
       IN  /\ trades' = Append(trades,
                               [incoming |-> shown(order, "Active"),
                                existing |-> shown(best_ask_order, "Cancelled"),
                                quantity |-> tq, price |-> best_price])
           /\ orders' = [orders EXCEPT ![order].quantity = @ - tq,
                                       ![best_ask_order].quantity = @ - tq]
    /\ asks' = [asks EXCEPT ![best_price] = popleft(@)]
    /\ UNCHANGED <<order_id_counter, bids, bid_prices, ask_prices,
                   order_map, pc, order, best_price, call>>

\* One iteration of the inner while loop whose head order is cancelled: the
\* head is discarded.
BuySweep ==
    /\ pc = "level"
    /\ orders[order].side = "buy"
    /\ asks[best_price] # <<>>
    /\ orders[order].quantity > 0
    /\ discarded(orders[Head(asks[best_price])])
    /\ asks' = [asks EXCEPT ![best_price] = popleft(@)]
    /\ UNCHANGED <<orders, order_id_counter, bids, bid_prices, ask_prices,
                   order_map, pc, order, best_price, trades, call>>

\* A faulty SellSweep that goes round the loop again without popping the
\* cancelled head; C22 must not survive it.
SellSweep_no_pop ==
    /\ pc = "level"
    /\ orders[order].side = "sell"
    /\ bids[best_price] # <<>>
    /\ orders[order].quantity > 0
    /\ discarded(orders[Head(bids[best_price])])
    /\ UNCHANGED vars

SellSweep ==
    /\ pc = "level"
    /\ orders[order].side = "sell"
    /\ bids[best_price] # <<>>
    /\ orders[order].quantity > 0
    /\ discarded(orders[Head(bids[best_price])])
    /\ bids' = [bids EXCEPT ![best_price] = popleft(@)]
    /\ UNCHANGED <<orders, order_id_counter, asks, bid_prices, ask_prices,
                   order_map, pc, order, best_price, trades, call>>

\* A faulty trade_quantity that takes the larger residual; C4 must not
\* survive it.
trade_quantity_max(a, b) == IF a >= b THEN a ELSE b

\* trade_quantity = min(order.quantity, best_ask_order.quantity)
trade_quantity(a, b) == min(a, b)

\* Order.__repr__: what a print shows of an order.
repr(id) ==
    [id |-> id,
     status |-> IF orders[id].is_cancelled THEN "Cancelled" ELSE "Active",
     side |-> orders[id].side,
     qty |-> orders[id].quantity,
     price |-> orders[id].price]

\* The record of one TRADE EXECUTED print: both orders as they are before
\* their quantities are updated, the trade quantity and the level's price.
Trade(incoming, existing, quantity, price) ==
    [incoming |-> repr(incoming), existing |-> repr(existing),
     quantity |-> quantity, price |-> price]

\* A faulty BuyFill that leaves a filled resting order in the order map; C13
\* must not survive it.
BuyFill_keeps_filled ==
    /\ pc = "level"
    /\ orders[order].side = "buy"
    /\ asks[best_price] # <<>>
    /\ orders[order].quantity > 0
    /\ LET best_ask_order == Head(asks[best_price])
           tq == trade_quantity(orders[order].quantity,
                                orders[best_ask_order].quantity)
       IN  /\ ~discarded(orders[best_ask_order])
           /\ trades' = Append(trades, Trade(order, best_ask_order, tq, best_price))
           /\ orders' = [orders EXCEPT ![order].quantity = @ - tq,
                                       ![best_ask_order].quantity = @ - tq]
           /\ asks' = IF orders[best_ask_order].quantity - tq = 0
                      THEN [asks EXCEPT ![best_price] = popleft(@)]
                      ELSE asks
    /\ UNCHANGED <<order_id_counter, bids, bid_prices, ask_prices, order_map,
                   pc, order, best_price, call>>

\* One iteration of the inner while loop whose head order is live: a trade.
BuyFill ==
    /\ pc = "level"
    /\ orders[order].side = "buy"
    /\ asks[best_price] # <<>>
    /\ orders[order].quantity > 0
    /\ LET best_ask_order == Head(asks[best_price])
           tq == trade_quantity(orders[order].quantity,
                                orders[best_ask_order].quantity)
       IN  /\ ~discarded(orders[best_ask_order])
           /\ trades' = Append(trades, Trade(order, best_ask_order, tq, best_price))
           /\ IF orders[best_ask_order].quantity - tq = 0
              THEN /\ asks' = [asks EXCEPT ![best_price] = popleft(@)]
                   /\ order_map' = order_map \ {best_ask_order}
                   /\ orders' = released([orders EXCEPT ![order].quantity = @ - tq],
                                         {best_ask_order})
              ELSE /\ orders' = [orders EXCEPT ![order].quantity = @ - tq,
                                               ![best_ask_order].quantity = @ - tq]
                   /\ UNCHANGED <<asks, order_map>>
    /\ UNCHANGED <<order_id_counter, bids, bid_prices, ask_prices, pc, order,
                   best_price, call>>

SellFill ==
    /\ pc = "level"
    /\ orders[order].side = "sell"
    /\ bids[best_price] # <<>>
    /\ orders[order].quantity > 0
    /\ LET best_bid_order == Head(bids[best_price])
           tq == trade_quantity(orders[order].quantity,
                                orders[best_bid_order].quantity)
       IN  /\ ~discarded(orders[best_bid_order])
           /\ trades' = Append(trades, Trade(order, best_bid_order, tq, best_price))
           /\ IF orders[best_bid_order].quantity - tq = 0
              THEN /\ bids' = [bids EXCEPT ![best_price] = popleft(@)]
                   /\ order_map' = order_map \ {best_bid_order}
                   /\ orders' = released([orders EXCEPT ![order].quantity = @ - tq],
                                         {best_bid_order})
              ELSE /\ orders' = [orders EXCEPT ![order].quantity = @ - tq,
                                               ![best_bid_order].quantity = @ - tq]
                   /\ UNCHANGED <<bids, order_map>>
    /\ UNCHANGED <<order_id_counter, asks, bid_prices, ask_prices, pc, order,
                   best_price, call>>

\* The exit of the inner while loop: an empty level is removed, and the
\* outer loop's test comes next.
BuyLevelDone ==
    /\ pc = "level"
    /\ orders[order].side = "buy"
    /\ ~(asks[best_price] # <<>> /\ orders[order].quantity > 0)
    /\ IF asks[best_price] = <<>>
       THEN _remove_empty_price_level("sell", best_price)
       ELSE UNCHANGED <<bids, bid_prices, asks, ask_prices>>
    /\ pc' = "match"
    /\ UNCHANGED <<orders, order_id_counter, order_map, order, best_price,
                   trades, call>>

SellLevelDone ==
    /\ pc = "level"
    /\ orders[order].side = "sell"
    /\ ~(bids[best_price] # <<>> /\ orders[order].quantity > 0)
    /\ IF bids[best_price] = <<>>
       THEN _remove_empty_price_level("buy", best_price)
       ELSE UNCHANGED <<bids, bid_prices, asks, ask_prices>>
    /\ pc' = "match"
    /\ UNCHANGED <<orders, order_id_counter, order_map, order, best_price,
                   trades, call>>

\* The end of _match_order and of add_order: what is left of the order is
\* added to the book, and the order's id is returned.
Rest ==
    /\ pc = "rest"
    /\ IF orders[order].quantity > 0
       THEN /\ _add_to_book(order)
            /\ UNCHANGED orders
       ELSE /\ orders' = released(orders, {order})
            /\ UNCHANGED book
    /\ call' = [call EXCEPT !.result = "returned"]
    /\ pc' = "idle"
    /\ order' = 0
    /\ best_price' = 0
    /\ UNCHANGED <<order_id_counter, trades>>

\* A faulty cancel that flips the flag; C7 must not survive it.
cancel_toggle(o) == [o EXCEPT !.is_cancelled = ~@]

\* A faulty cancel that also drops the residual; C6 must not survive it.
cancel_zero(o) == [o EXCEPT !.is_cancelled = TRUE, !.quantity = 0]

\* Order.cancel()
cancel(o) == [o EXCEPT !.is_cancelled = TRUE]

\* OrderBook.cancel_order(order_id)
CancelOrder(order_id) ==
    /\ pc = "idle"
    /\ IF order_id \in order_map
       THEN /\ orders' = [orders EXCEPT ![order_id] = cancel(@)]
            /\ call' = [op |-> "cancel_order", order_id |-> order_id,
                        side |-> "", price |-> 0, quantity |-> 0,
                        result |-> "True",
                        repeat |-> (call.op = "cancel_order"
                                    /\ call.order_id = order_id)]
       ELSE /\ UNCHANGED orders
            /\ call' = [op |-> "cancel_order", order_id |-> order_id,
                        side |-> "", price |-> 0, quantity |-> 0,
                        result |-> "False",
                        repeat |-> (call.op = "cancel_order"
                                    /\ call.order_id = order_id)]
    /\ trades' = <<>>
    /\ UNCHANGED <<order_id_counter, book, pc, order, best_price>>

\* A faulty AddOrderOtherBook that draws the id from a counter of the new
\* OrderBook itself; C12 must not survive it.
AddOrderOtherBook_own_counter(side, price, quantity) ==
    /\ pc = "idle"
    /\ Valid(side, price, quantity)
    /\ order_id_counter <= MaxOrders
    /\ call' = [op |-> "other.add_order", order_id |-> 1, side |-> "",
                price |-> 0, quantity |-> 0, result |-> "returned",
                repeat |-> FALSE]
    /\ trades' = <<>>
    /\ UNCHANGED <<orders, order_id_counter, book, pc, order, best_price>>

\* OrderBook().add_order(side, price, quantity): add_order with valid
\* arguments on another, new OrderBook of the same process (as main.py does
\* with ob2, ob3, ob4). The Order takes the next id of the module's counter;
\* the other book is empty, so nothing matches, the order rests there and its
\* id is returned. This book is not touched, and the other book with its
\* order is dropped afterwards.
AddOrderOtherBook(side, price, quantity) ==
    /\ pc = "idle"
    /\ Valid(side, price, quantity)
    /\ order_id_counter <= MaxOrders
    /\ order_id_counter' = order_id_counter + 1
    /\ call' = [op |-> "other.add_order", order_id |-> order_id_counter,
                side |-> "", price |-> 0, quantity |-> 0,
                result |-> "returned", repeat |-> FALSE]
    /\ trades' = <<>>
    /\ UNCHANGED <<orders, book, pc, order, best_price>>

Next ==
    \/ \E a \in InvalidArgs : AddOrderRejected(a[1], a[2], a[3])
    \/ \E side \in Sides, price \in Prices, quantity \in Quantities :
          AddOrder(side, price, quantity)
    \/ BuyOuter
    \/ SellOuter
    \/ BuySweep
    \/ SellSweep
    \/ BuyFill
    \/ SellFill
    \/ BuyLevelDone
    \/ SellLevelDone
    \/ Rest
    \/ \E order_id \in OrderIds : CancelOrder(order_id)

Spec == Init /\ [][Next]_vars

\* The process with a second OrderBook beside the modelled one.
NextProcess ==
    \/ Next
    \/ \E side \in Sides, price \in Prices, quantity \in Quantities :
          AddOrderOtherBook(side, price, quantity)

SpecProcess == Init /\ [][NextProcess]_vars

----------------------------------------------------------------------------
\* The market-data accessors.

\* OrderBook.get_best_bid()
get_best_bid ==
    IF bid_prices # <<>> THEN neg(first_entry(bid_prices)) ELSE None

\* OrderBook.get_best_ask()
get_best_ask == IF ask_prices # <<>> THEN first_entry(ask_prices) ELSE None

\* sum(order.quantity for order in queue if not order.is_cancelled)
RECURSIVE live_quantity(_)
live_quantity(q) ==
    IF q = <<>> THEN 0
    ELSE (IF orders[Head(q)].is_cancelled THEN 0 ELSE orders[Head(q)].quantity)
         + live_quantity(Tail(q))

\* A faulty get_total_volume that counts cancelled orders too; C8 must not
\* survive it.
RECURSIVE all_quantity(_)
all_quantity(q) ==
    IF q = <<>> THEN 0 ELSE orders[Head(q)].quantity + all_quantity(Tail(q))

get_total_volume_unfiltered(side, price) ==
    IF side = "buy" /\ price \in DOMAIN bids THEN all_quantity(bids[price])
    ELSE IF side = "sell" /\ price \in DOMAIN asks THEN all_quantity(asks[price])
    ELSE 0

\* OrderBook.get_total_volume(side, price)
get_total_volume(side, price) ==
    IF side = "buy" /\ price \in DOMAIN bids THEN live_quantity(bids[price])
    ELSE IF side = "sell" /\ price \in DOMAIN asks THEN live_quantity(asks[price])
    ELSE 0

\* A faulty truediv that divides as // does; C19 must not survive it.
floordiv(a, b) == 2 * (a \div b)

\* a / b, Python's true division, for the divisor 2: the quotient is a float
\* that is a multiple of 1/2, held here as the number of halves it is made of
\* (1.5 is 3).
truediv(a, b) == IF a = NaN THEN NaN ELSE (2 * a) \div b

\* OrderBook.get_spread()
get_spread ==
    LET best_bid == get_best_bid
        best_ask == get_best_ask
    IN  IF best_bid # None /\ best_ask # None
        THEN sub(best_ask, best_bid)
        ELSE None

\* OrderBook.get_mid_price(), in halves (see truediv)
get_mid_price ==
    LET best_bid == get_best_bid
        best_ask == get_best_ask
    IN  IF best_bid # None /\ best_ask # None
        THEN truediv(add(best_bid, best_ask), 2)
        ELSE None

\* A call of an accessor: the accessors assign to nothing, so a call leaves
\* the orders, the book and the counter as they are; it prints nothing, and
\* it is recorded as the last call with its arguments and the value returned.
Query(op, side, price, value) ==
    /\ pc = "idle"
    /\ call' = [op |-> op, side |-> side, price |-> price, value |-> value]
    /\ trades' = <<>>
    /\ UNCHANGED <<orders, order_id_counter, book, pc, order, best_price>>

GetBestBid == Query("get_best_bid", "", 0, get_best_bid)
GetBestAsk == Query("get_best_ask", "", 0, get_best_ask)
GetSpread == Query("get_spread", "", 0, get_spread)
GetMidPrice == Query("get_mid_price", "", 0, get_mid_price)

\* A faulty GetTotalVolume that drops the cancelled orders from the queue it
\* sums over; C18 must not survive it.
GetTotalVolume_sweeping(side, price) ==
    /\ pc = "idle"
    /\ call' = [op |-> "get_total_volume", side |-> side, price |-> price,
                value |-> get_total_volume(side, price)]
    /\ trades' = <<>>
    /\ bids' = IF side = "buy" /\ price \in DOMAIN bids
               THEN [bids EXCEPT ![price] =
                       SelectSeq(@, LAMBDA i : ~orders[i].is_cancelled)]
               ELSE bids
    /\ asks' = IF side = "sell" /\ price \in DOMAIN asks
               THEN [asks EXCEPT ![price] =
                       SelectSeq(@, LAMBDA i : ~orders[i].is_cancelled)]
               ELSE asks
    /\ UNCHANGED <<orders, order_id_counter, bid_prices, ask_prices,
                   order_map, pc, order, best_price>>

GetTotalVolume(side, price) ==
    Query("get_total_volume", side, price, get_total_volume(side, price))

\* The book with its market data read between the calls that change it.
NextMarketData ==
    \/ Next
    \/ GetBestBid
    \/ GetBestAsk
    \/ GetSpread
    \/ GetMidPrice
    \/ \E side \in {"buy", "sell"}, price \in 1..MaxPrice :
          GetTotalVolume(side, price)

SpecMarketData == Init /\ [][NextMarketData]_vars

\* One step of a running add_order: an evaluation of a loop test, an
\* iteration of the inner loop, or the end of the call.
Step ==
    \/ BuyOuter
    \/ SellOuter
    \/ BuySweep
    \/ SellSweep
    \/ BuyFill
    \/ SellFill
    \/ BuyLevelDone
    \/ SellLevelDone
    \/ Rest

\* The book with add_order called with the price math.nan as well.
NextFloat ==
    \/ Next
    \/ \E side \in {"buy", "sell"} : AddOrder(side, NaN, 1)

SpecFloat == Init /\ [][NextFloat]_vars

\* A call runs to its end: Python goes on executing add_order once it is
\* entered, so a step of the running call that stays possible is taken.
SpecFloatFair == SpecFloat /\ WF_vars(Step)

----------------------------------------------------------------------------
\* What the claims below speak of.

\* The orders resting in a queue of the book (live or cancelled but not yet
\* discarded).
RECURSIVE SeqToSet(_)
SeqToSet(q) == IF q = <<>> THEN {} ELSE {Head(q)} \cup SeqToSet(Tail(q))

Queued ==
    UNION ({SeqToSet(bids[p]) : p \in DOMAIN bids}
           \cup {SeqToSet(asks[p]) : p \in DOMAIN asks})

\* The referenced orders other than the incoming one of a running add_order.
Booked == DOMAIN orders \ {order}

\* The queue of a side at a price; empty when the side has no such level.
QueueAt(side, price) ==
    IF side = "buy" /\ price \in DOMAIN bids THEN bids[price]
    ELSE IF side = "sell" /\ price \in DOMAIN asks THEN asks[price]
    ELSE <<>>

\* The live (not cancelled) queued orders of a side, and those at one price.
Live(side) ==
    {i \in Queued : orders[i].side = side /\ ~orders[i].is_cancelled}
LiveAt(side, price) == {i \in Live(side) : orders[i].price = price}

\* The sum of the quantities of a sequence of trades.
RECURSIVE TradedQuantity(_)
TradedQuantity(ts) ==
    IF ts = <<>> THEN 0 ELSE Head(ts).quantity + TradedQuantity(Tail(ts))

\* add_order has just returned an order id.
Returned == pc = "idle" /\ call.op = "add_order" /\ call.result = "returned"

\* C1 (time priority): for every trade of the last add_order, against a
\* resting order r, every order the book still holds with a smaller id on r's
\* side at r's price is cancelled (every other earlier one was filled and
\* released); and when the trade filled r only partly, r is still the head of
\* its queue.
C1_TimePriority ==
    \A k \in 1..Len(trades) :
       LET r == trades[k].existing
       IN  /\ \A i \in Booked :
                (i < r.id /\ orders[i].side = r.side /\ orders[i].price = r.price)
                   => orders[i].is_cancelled
           /\ r.id \in DOMAIN orders =>
                /\ orders[r.id].quantity > 0
                /\ QueueAt(r.side, r.price) # <<>>
                /\ Head(QueueAt(r.side, r.price)) = r.id

\* Two orders were traded against in arrival order at one price, and the
\* second, filled only partly, is still held by the book with an order queued
\* behind it.
C1_Witness ==
    /\ Len(trades) = 2
    /\ trades[1].price = trades[2].price
    /\ trades[1].existing.id < trades[2].existing.id
    /\ trades[2].existing.id \in Booked
    /\ orders[trades[2].existing.id].quantity > 0
    /\ Len(QueueAt(trades[2].existing.side, trades[2].price)) >= 2

C3_FillPrice ==
    \A k \in 1..Len(trades) :
       LET t == trades[k]
       IN  /\ t.price = t.existing.price
           /\ t.incoming.side = call.side
           /\ t.incoming.price = call.price
           /\ t.existing.side # t.incoming.side
           /\ t.incoming.side = "buy" => t.price <= t.incoming.price
           /\ t.incoming.side = "sell" => t.price >= t.incoming.price

\* A trade strictly inside the incoming order's limit was executed.
C3_Witness ==
    /\ trades # <<>>
    /\ trades[1].price # trades[1].incoming.price

\* C4 (quantity conservation): when add_order(side, price, q) returns, the
\* quantities of its trades sum to at most q, to exactly q iff the incoming
\* order is in no queue, and otherwise the order is queued on its own side at
\* its own price (and nowhere else) with residual q minus that sum; each trade
\* is for min(incoming residual, resting residual) and takes that amount off
\* both orders.
C4_QuantityConservation ==
    /\ Returned =>
          LET id == call.order_id
              s == TradedQuantity(trades)
          IN  /\ s <= call.quantity
              /\ s = call.quantity <=> id \notin Queued
              /\ s < call.quantity =>
                   /\ id \in DOMAIN orders
                   /\ orders[id].side = call.side
                   /\ orders[id].price = call.price
                   /\ orders[id].quantity = call.quantity - s
                   /\ \A sd \in {"buy", "sell"}, p \in Prices :
                        id \in SeqToSet(QueueAt(sd, p))
                           <=> (sd = call.side /\ p = call.price)
    /\ \A k \in 1..Len(trades) :
          LET t == trades[k]
          IN  /\ t.quantity = min(t.incoming.qty, t.existing.qty)
              /\ t.quantity > 0
              /\ t.incoming.qty
                    = call.quantity - TradedQuantity(SubSeq(trades, 1, k - 1))
              /\ IF t.existing.id \in DOMAIN orders
                 THEN orders[t.existing.id].quantity = t.existing.qty - t.quantity
                 ELSE t.existing.qty = t.quantity
    /\ order # 0 =>
          orders[order].quantity = call.quantity - TradedQuantity(trades)

\* An add_order returned after trading a part of its quantity, the rest
\* resting.
C4_Witness ==
    /\ Returned
    /\ TradedQuantity(trades) > 0
    /\ TradedQuantity(trades) < call.quantity

\* C5 (cancelled orders do not trade): no trade has a cancelled order as its
\* resting order; a cancelled order stays as it is (cancelled, same residual)
\* in every later step; and cancelled orders in a queue block nothing: when
\* add_order returns with the incoming order resting, no live order of the
\* opposite side is left at a price the incoming order crosses.
C5_CancelledNeverTrades ==
    /\ [](\A k \in 1..Len(trades) : trades[k].existing.status = "Active")
    /\ [][\A i \in DOMAIN orders :
             orders[i].is_cancelled =>
                (i \in DOMAIN orders' /\ orders'[i] = orders[i])]_vars
    /\ []((Returned /\ call.order_id \in Queued) =>
            \A i \in Queued :
               (orders[i].side # call.side /\ ~orders[i].is_cancelled)
                  => IF call.side = "buy"
                     THEN call.price < orders[i].price
                     ELSE call.price > orders[i].price)

\* One add_order traded with a live order, skipped the cancelled order queued
\* behind it, and traded with the live order behind that one.
C5_Witness ==
    /\ Len(trades) = 2
    /\ trades[1].price = trades[2].price
    /\ \E c \in DOMAIN orders :
          /\ orders[c].is_cancelled
          /\ c \notin Queued
          /\ orders[c].price = trades[1].price
          /\ orders[c].side # call.side
          /\ trades[1].existing.id < c
          /\ c < trades[2].existing.id

\* C6 (cancel_order's result and frame): cancel_order(id) returns True
\* exactly when id is a key of the order map; then the order's flag is set and
\* nothing else changes (every queue, every residual quantity, the price
\* levels and price lists, best bid and ask, the order map, the id counter);
\* when it returns False nothing changes.
C6_CancelFrame ==
    [][\A id \in OrderIds :
          CancelOrder(id) =>
             /\ call'.result = (IF id \in order_map THEN "True" ELSE "False")
             /\ UNCHANGED <<bids, asks, bid_prices, ask_prices, order_map,
                            order_id_counter>>
             /\ get_best_bid' = get_best_bid
             /\ get_best_ask' = get_best_ask
             /\ DOMAIN orders' = DOMAIN orders
             /\ \A i \in DOMAIN orders :
                   /\ orders'[i].side = orders[i].side
                   /\ orders'[i].price = orders[i].price
                   /\ orders'[i].quantity = orders[i].quantity
                   /\ orders'[i].is_cancelled
                         = (orders[i].is_cancelled \/ (i = id /\ id \in order_map))
             /\ id \notin order_map => orders' = orders]_vars

\* cancel_order returned True for a live order that is still queued.
C6_Witness ==
    /\ call.op = "cancel_order"
    /\ call.result = "True"
    /\ ~call.repeat
    /\ call.order_id \in Queued
    /\ orders[call.order_id].is_cancelled
    /\ orders[call.order_id].quantity > 0

\* C7 (cancel_order is idempotent): after cancel_order(id) has returned True
\* the order is still a key of the order map and cancelled, and cancel_order
\* on such an order returns True again and leaves the orders, the book and the
\* id counter exactly as they are.
C7_CancelIdempotent ==
    [][\A id \in OrderIds :
          /\ (CancelOrder(id) /\ call'.result = "True") =>
                (id \in order_map' /\ orders'[id].is_cancelled)
          /\ (CancelOrder(id) /\ id \in order_map /\ orders[id].is_cancelled) =>
                /\ call'.result = "True"
                /\ UNCHANGED <<orders, bids, asks, bid_prices, ask_prices,
                               order_map, order_id_counter, pc, order,
                               best_price>>]_vars

\* cancel_order was called twice in a row on a queued order and returned True
\* the second time.
C7_Witness ==
    /\ call.op = "cancel_order"
    /\ call.repeat
    /\ call.result = "True"
    /\ call.order_id \in Queued

\* The sum of the residual quantities of a set of orders.
RECURSIVE SumQuantity(_)
SumQuantity(S) ==
    IF S = {} THEN 0
    ELSE LET i == CHOOSE i \in S : TRUE
         IN  orders[i].quantity + SumQuantity(S \ {i})

\* C8 (total volume): get_total_volume(side, p) is the sum of the residual
\* quantities of the queued, not cancelled orders whose side is `side` and
\* whose price is p; it is 0 when the side has no level at p, when every
\* order queued at the level is cancelled, and for a side that is neither
\* "buy" nor "sell".
C8_TotalVolume ==
    \A side \in Sides, price \in Prices :
       /\ get_total_volume(side, price) = SumQuantity(LiveAt(side, price))
       /\ QueueAt(side, price) = <<>> => get_total_volume(side, price) = 0
       /\ (\A i \in SeqToSet(QueueAt(side, price)) : orders[i].is_cancelled)
             => get_total_volume(side, price) = 0

\* Between calls, a level holds a cancelled order with a residual and a live
\* order, and its volume is the live order's alone.
C8_Witness ==
    /\ pc = "idle"
    /\ \E side \in {"buy", "sell"}, price \in Prices :
          /\ get_total_volume(side, price) > 0
          /\ \E i \in SeqToSet(QueueAt(side, price)) :
                orders[i].is_cancelled /\ orders[i].quantity > 0

Entries(a) == {a[i] : i \in 1..Len(a)}
StrictlyAscending(a) == \A i \in 1..(Len(a) - 1) : a[i] < a[i + 1]
Max(S) == CHOOSE x \in S : \A y \in S : y <= x
Min(S) == CHOOSE x \in S : \A y \in S : x <= y

C10_BestIsLive ==
    pc = "idle" =>
       /\ get_best_bid = (IF Live("buy") = {} THEN None
                          ELSE Max({orders[i].price : i \in Live("buy")}))
       /\ get_best_ask = (IF Live("sell") = {} THEN None
                          ELSE Min({orders[i].price : i \in Live("sell")}))

\* C11 (rejected add_order): add_order goes on to construct an Order only
\* with a side of "buy" or "sell", a positive price and a positive quantity;
\* with any other arguments it ends in ValueError within the same step, and
\* that step emits no trade and leaves the orders, both side books, both price
\* lists, the order map and the next order id exactly as they are.
C11_RejectedFrame ==
    /\ []((call.op = "add_order" /\ call.result # "ValueError") =>
            /\ call.side \in {"buy", "sell"}
            /\ call.price > 0
            /\ call.quantity > 0)
    /\ [][(call'.op = "add_order" /\ call'.result = "ValueError") =>
             /\ trades' = <<>>
             /\ pc = "idle"
             /\ pc' = "idle"
             /\ UNCHANGED <<orders, order_id_counter, bids, asks, bid_prices,
                            ask_prices, order_map>>]_vars

\* An add_order was rejected on a book that holds orders on both sides, one
\* of them cancelled.
C11_Witness ==
    /\ call.op = "add_order"
    /\ call.result = "ValueError"
    /\ DOMAIN bids # {}
    /\ DOMAIN asks # {}
    /\ \E i \in Queued : orders[i].is_cancelled
    /\ order_id_counter > 2

\* C12 (fresh ids): the first id is 1; an id is taken from the counter only
\* when add_order constructs its Order, on this book or on another one, and
\* the counter then goes up by exactly 1; every add_order that has taken an
\* id returns before the next one starts, and returns the id it took, the
\* last one taken, whether its order rested, was filled in part or was
\* consumed on entry; so the ids returned are 1, 2, 3, ... in the order of the
\* calls, none twice. Every id the book holds is below the next id.
C12_FreshIds ==
    /\ order_id_counter = 1
    /\ [](\A i \in DOMAIN orders \cup order_map \cup Queued :
             i >= 1 /\ i < order_id_counter)
    /\ [](pc # "idle" =>
            /\ call.op = "add_order"
            /\ call.result = "pending"
            /\ call.order_id = order
            /\ order = order_id_counter - 1)
    /\ [][order_id_counter' # order_id_counter =>
             /\ pc = "idle"
             /\ order_id_counter' = order_id_counter + 1
             /\ call'.op \in {"add_order", "other.add_order"}
             /\ call'.order_id = order_id_counter
             /\ call'.result = (IF pc' = "idle" THEN "returned" ELSE "pending")]_vars
    /\ [][(pc # "idle" /\ pc' = "idle") =>
             /\ call'.result = "returned"
             /\ call'.order_id = call.order_id]_vars
    /\ [][(call'.result = "returned" /\ call' # call) =>
             /\ pc' = "idle"
             /\ call'.order_id = order_id_counter' - 1]_vars

\* add_order on another OrderBook has returned an id above the ids of the
\* orders this book holds, after an add_order on this book whose order was
\* consumed on entry.
C12_Witness ==
    /\ call.op = "other.add_order"
    /\ call.result = "returned"
    /\ call.order_id = order_id_counter - 1
    /\ Queued # {}
    /\ \A i \in Queued : i < call.order_id
    /\ \E i \in 1..(call.order_id - 1) : i \notin DOMAIN orders

\* C13 (the order map and fills): every key of the order map is an order
\* with a residual above 0 (a resting order leaves the map in the step that
\* takes its residual to 0); every order that rested and is neither filled nor
\* cancelled is a key of the map and is in the queue of its own side and
\* price; the incoming order of a running add_order is not a key, and an
\* order consumed on entry never becomes one; so no id of a filled order is a
\* key, and cancel_order on such an id returns False.
C13_IndexAndFills ==
    /\ order_map \subseteq DOMAIN orders
    /\ \A i \in order_map : orders[i].quantity > 0
    /\ \A i \in Booked :
          ~orders[i].is_cancelled =>
             /\ i \in order_map
             /\ i \in SeqToSet(QueueAt(orders[i].side, orders[i].price))
    /\ order # 0 => order \notin order_map
    /\ (Returned /\ TradedQuantity(trades) = call.quantity) =>
          /\ call.order_id \notin order_map
          /\ call.order_id \notin DOMAIN orders
    /\ \A id \in 1..(order_id_counter - 1) :
          (id # order /\ id \notin DOMAIN orders) => id \notin order_map
    /\ (/\ call.op = "cancel_order"
        /\ call.order_id < order_id_counter
        /\ call.order_id \notin DOMAIN orders) => call.result = "False"

\* cancel_order has returned False for the id of a filled order, while a
\* live order is still a key of the order map and queued.
C13_Witness ==
    /\ call.op = "cancel_order"
    /\ call.result = "False"
    /\ call.order_id < order_id_counter
    /\ call.order_id \notin DOMAIN orders
    /\ \E i \in order_map :
          /\ ~orders[i].is_cancelled
          /\ i \in Queued

\* C14 (the order map and the sweep), as claimed: every key of the order map
\* is an order that is in some queue of the book, so that the id of a
\* cancelled order discarded by the matching loop is no longer a key and a
\* later cancel_order on it returns False.
C14_SweptLeavesIndex ==
    /\ order_map \subseteq Queued
    /\ (call.op = "cancel_order" /\ call.order_id \notin Queued) =>
          call.result = "False"

\* An order of the given side and price does not cross the book: a buy below
\* the best ask or with no asks, a sell above the best bid or with no bids.
NoCross(side, price) ==
    IF side = "buy"
    THEN get_best_ask = None \/ price < get_best_ask
    ELSE get_best_bid = None \/ price > get_best_bid

\* A running add_order that has not traded and whose order does not cross.
NotCrossing ==
    /\ pc # "idle"
    /\ trades = <<>>
    /\ orders[order].quantity = call.quantity
    /\ NoCross(call.side, call.price)

Opposite(side) == IF side = "buy" THEN "sell" ELSE "buy"
LevelsOf(side) == IF side = "buy" THEN DOMAIN bids ELSE DOMAIN asks
BestOf(side) == IF side = "buy" THEN get_best_bid ELSE get_best_ask
SideOf(side) == IF side = "buy" THEN <<bids, bid_prices>> ELSE <<asks, ask_prices>>

\* An order of the given side, price and quantity sweeps the opposite side in
\* full: the price reaches every level there and the quantity is at least the
\* live quantity there.
FullSweep(side, price, quantity) ==
    /\ \A p \in LevelsOf(Opposite(side)) :
          IF side = "buy" THEN price >= p ELSE price <= p
    /\ quantity >= SumQuantity(Live(Opposite(side)))

\* A running add_order whose order sweeps what is left of the opposite side,
\* and the quantity it has in excess of the live quantity there.
Sweeping ==
    /\ pc # "idle"
    /\ FullSweep(call.side, call.price, orders[order].quantity)
Excess == orders[order].quantity - SumQuantity(Live(Opposite(call.side)))

\* C16 (full sweep), as claimed: at the end of an add_order that has traded
\* and whose order swept the opposite side in full, the opposite side has no
\* level and no best price, and the step that ends the call leaves the
\* order's own side unchanged.
C16_SweepAsClaimed ==
    [][(Sweeping /\ trades # <<>> /\ pc = "rest") =>
          /\ LevelsOf(Opposite(call.side))' = {}
          /\ BestOf(Opposite(call.side))' = None
          /\ SideOf(call.side)' = SideOf(call.side)]_vars

\* C16 (full sweep), amended: an add_order whose price reaches every level
\* of the opposite side and whose quantity is at least the live quantity there
\* does not touch its own side while it matches, keeps its excess over the
\* live quantity throughout, and ends with no live order on the opposite side,
\* its trades summing to the live quantity that was there. With an excess the
\* opposite side is left with no level and no best price, and the excess rests
\* at the tail of the queue of the order's own side and price, its own side
\* being otherwise unchanged. Without an excess its own side is unchanged, the
\* order is not in the book, and the opposite side holds cancelled orders
\* only, if any.
C16_FullSweep ==
    /\ [][(/\ pc = "idle"
           /\ pc' # "idle"
           /\ FullSweep(call'.side, call'.price, call'.quantity)) =>
             (UNCHANGED book /\ Sweeping')]_vars
    /\ [][(Sweeping /\ pc # "rest") =>
             /\ Sweeping'
             /\ Excess' = Excess
             /\ SideOf(call.side)' = SideOf(call.side)]_vars
    /\ [][(Sweeping /\ pc = "rest") =>
             /\ Returned'
             /\ Live(Opposite(call.side))' = {}
             /\ TradedQuantity(trades') = call.quantity - Excess
             /\ Excess = orders[order].quantity
             /\ IF Excess > 0
                THEN /\ LevelsOf(Opposite(call.side))' = {}
                     /\ BestOf(Opposite(call.side))' = None
                     /\ orders'[order].quantity = Excess
                     /\ QueueAt(call.side, call.price)'
                           = Append(QueueAt(call.side, call.price), order)
                     /\ \A p \in Prices \ {call.price} :
                           QueueAt(call.side, p)' = QueueAt(call.side, p)
                ELSE /\ SideOf(call.side)' = SideOf(call.side)
                     /\ order \notin DOMAIN orders'
                     /\ order \notin Queued']_vars

\* An add_order has returned after trading with two levels of the opposite
\* side and has left that side without a live order; a cancelled order of
\* that side, queued or discarded, is still referenced.
C16_Witness ==
    /\ Returned
    /\ Len(trades) >= 2
    /\ trades[1].price # trades[2].price
    /\ Live(Opposite(call.side)) = {}
    /\ \E c \in DOMAIN orders :
          orders[c].is_cancelled /\ orders[c].side = Opposite(call.side)

\* The queued orders of the opposite side at a price an order of the given
\* side and price crosses.
CrossedBy(side, price) ==
    {i \in Queued :
        /\ orders[i].side = Opposite(side)
        /\ IF side = "buy" THEN orders[i].price <= price
                            ELSE orders[i].price >= price}

\* The prices an order of the given side and price crosses.
CrossedPrices(side, price) ==
    {p \in Prices : IF side = "buy" THEN p <= price ELSE p >= price}

\* A running add_order that has not traded and whose order crosses cancelled
\* orders only.
CrossingCancelledOnly ==
    /\ pc # "idle"
    /\ trades = <<>>
    /\ orders[order].quantity = call.quantity
    /\ \A i \in CrossedBy(call.side, call.price) : orders[i].is_cancelled

Accessors ==
    {"get_best_bid", "get_best_ask", "get_spread", "get_mid_price",
     "get_total_volume"}

\* C18 (the accessors are read-only): a call of get_best_bid, get_best_ask,
\* get_spread, get_mid_price or get_total_volume is made between the calls of
\* add_order and cancel_order and leaves the orders with their flags and
\* residuals, both side books with every queue, both price lists, the order
\* map and the id counter exactly as they are; and the same accessor called
\* again with the same arguments right after returns the same value.
C18_AccessorsReadOnly ==
    /\ [][call'.op \in Accessors =>
             /\ pc = "idle"
             /\ pc' = "idle"
             /\ UNCHANGED <<orders, order_id_counter, bids, asks, bid_prices,
                            ask_prices, order_map>>]_vars
    /\ [][(/\ call.op \in Accessors
           /\ call'.op = call.op
           /\ call'.side = call.side
           /\ call'.price = call.price) => call'.value = call.value]_vars

\* get_total_volume has returned the live volume of a level whose queue
\* still holds a cancelled order in front of a live one.
C18_Witness ==
    /\ call.op = "get_total_volume"
    /\ call.value > 0
    /\ LET q == QueueAt(call.side, call.price)
       IN  /\ Len(q) >= 2
           /\ orders[q[1]].is_cancelled
           /\ ~orders[q[2]].is_cancelled

\* C19 (spread and mid price): when both sides have a level, get_spread is
\* the lowest ask price less the highest bid price and get_mid_price is half
\* their sum (twice the mid price is the sum); when either side has no level,
\* both are None, and they are None in no other case; on an empty book
\* get_best_bid and get_best_ask are None too and get_total_volume is 0 for
\* every side and price.
C19_SpreadAndMid ==
    /\ (DOMAIN bids # {} /\ DOMAIN asks # {}) =>
          /\ get_spread = Min(DOMAIN asks) - Max(DOMAIN bids)
          /\ get_mid_price = Min(DOMAIN asks) + Max(DOMAIN bids)
          /\ get_spread # None
          /\ get_mid_price # None
    /\ (DOMAIN bids = {} \/ DOMAIN asks = {}) =>
          /\ get_spread = None
          /\ get_mid_price = None
    /\ (DOMAIN bids = {} /\ DOMAIN asks = {}) =>
          /\ get_best_bid = None
          /\ get_best_ask = None
          /\ \A side \in Sides, price \in Prices :
                get_total_volume(side, price) = 0

\* Between calls, after three orders or more, the book has a best bid of 1
\* and a best ask of 2: the spread is 1 and the mid price 1.5, three halves.
C19_Witness ==
    /\ pc = "idle"
    /\ get_spread = 1
    /\ get_mid_price = 3
    /\ get_best_bid = 1
    /\ get_best_ask = 2
    /\ order_id_counter > 3

\* How often an order is in a queue.
RECURSIVE Count(_, _)
Count(q, id) ==
    IF q = <<>> THEN 0
    ELSE (IF Head(q) = id THEN 1 ELSE 0) + Count(Tail(q), id)

\* C20 (levels and queues): between calls no level of bids or asks has an
\* empty queue (a cancelled order makes a queue non-empty); every order in a
\* queue has a residual above 0 and is queued on its own side at its own
\* price; and every queued order is in one queue only, once.
C20_LevelsAndQueues ==
    pc = "idle" =>
       /\ \A p \in DOMAIN bids : bids[p] # <<>>
       /\ \A p \in DOMAIN asks : asks[p] # <<>>
       /\ \A p \in DOMAIN bids : \A i \in SeqToSet(bids[p]) :
             /\ orders[i].quantity > 0
             /\ orders[i].side = "buy"
             /\ orders[i].price = p
       /\ \A p \in DOMAIN asks : \A i \in SeqToSet(asks[p]) :
             /\ orders[i].quantity > 0
             /\ orders[i].side = "sell"
             /\ orders[i].price = p
       /\ \A i \in Queued :
             /\ Count(QueueAt(orders[i].side, orders[i].price), i) = 1
             /\ \A side \in {"buy", "sell"}, p \in Prices :
                   Count(QueueAt(side, p), i) > 0
                      => (side = orders[i].side /\ p = orders[i].price)

\* An add_order has returned after a trade that emptied a level, which is
\* gone, while another level of that side holds a cancelled order only.
C20_Witness ==
    /\ Returned
    /\ trades # <<>>
    /\ trades[1].price \notin LevelsOf(trades[1].existing.side)
    /\ \E p \in LevelsOf(trades[1].existing.side) :
          \A i \in SeqToSet(QueueAt(trades[1].existing.side, p)) :
             orders[i].is_cancelled

\* C21 (the book is never crossed), as claimed: between calls, whenever
\* get_best_bid and get_best_ask are both not None, the best bid is strictly
\* below the best ask and get_spread is strictly positive; and an incoming
\* order is about to rest only when no level of the opposite side is left at
\* a price it crosses.
C21_NeverCrossed ==
    /\ (pc = "idle" /\ get_best_bid # None /\ get_best_ask # None) =>
          /\ lt(get_best_bid, get_best_ask)
          /\ lt(0, get_spread)
    /\ (pc = "rest" /\ orders[order].quantity > 0) =>
          \A p \in LevelsOf(Opposite(orders[order].side)) :
             IF orders[order].side = "buy"
             THEN ~ge(orders[order].price, p)
             ELSE ~le(orders[order].price, p)

\* The queue entries and the levels of a side.
EntriesOf(side) ==
    LET book_side == IF side = "buy" THEN bids ELSE asks
    IN  {e \in (DOMAIN book_side) \X (1..MaxOrders) : e[2] <= Len(book_side[e[1]])}

\* What a running add_order has left to do at most: it falls with every
\* step of the call.
Rank ==
    LET opp == Opposite(orders[order].side)
    IN  4 * (orders[order].quantity + Cardinality(EntriesOf(opp))
             + Cardinality(LevelsOf(opp)))
        + (CASE pc = "rest" -> 0
             [] pc = "match" /\ orders[order].quantity = 0 -> 1
             [] pc = "level" -> 2
             [] OTHER -> 3)

\* The queue the inner loop of a running add_order works on.
OrderQueue == QueueAt(Opposite(orders[order].side), best_price)

\* No statement of the running add_order is about to raise: the price list
\* has a first entry when the loop test reads it, the selected level is a key
\* of the opposite side and not nan, list.remove finds the price of a level
\* that ran empty, and del finds the id of a live head in order_map.
NoRaise ==
    LET opp == Opposite(orders[order].side)
        price_list == IF opp = "buy" THEN bid_prices ELSE ask_prices
    IN  /\ order \in DOMAIN orders
        /\ (pc = "match" /\ LevelsOf(opp) # {}) => price_list # <<>>
        /\ pc = "level" =>
              /\ best_price \in LevelsOf(opp)
              /\ best_price # NaN
              /\ (IF opp = "buy" THEN neg(best_price) ELSE best_price)
                    \in SeqToSet(price_list)
              /\ OrderQueue # <<>> =>
                    /\ Head(OrderQueue) \in DOMAIN orders
                    /\ ~orders[Head(OrderQueue)].is_cancelled =>
                          Head(OrderQueue) \in order_map

\* An iteration of the inner loop removes a cancelled head and leaves the
\* incoming order alone, or takes something off the incoming order.
InnerIteration ==
    (pc = "level" /\ pc' = "level") =>
       \/ /\ orders[Head(OrderQueue)].is_cancelled
          /\ OrderQueue' = Tail(OrderQueue)
          /\ orders'[order].quantity = orders[order].quantity
          /\ trades' = trades
       \/ orders'[order].quantity < orders[order].quantity

\* An iteration of the outer loop ends with the level empty and removed, or
\* with nothing left of the incoming order.
OuterIteration ==
    (pc = "level" /\ pc' = "match") =>
       \/ /\ OrderQueue = <<>>
          /\ best_price \notin LevelsOf(Opposite(orders[order].side))'
       \/ orders[order].quantity = 0

\* C22 (every valid add_order completes): a running add_order can always take
\* a step that changes the state and no statement of it raises; each inner
\* iteration removes a cancelled head or strictly decreases the incoming
\* residual, each outer iteration removes an emptied level or ends with the
\* residual 0; every step of the call lowers Rank, which is never negative, so
\* the call ends; a running call does reach its end; and it ends with the
\* incoming order fully filled (released, its whole quantity traded) or
\* resting in the queue of its side and price with what was not traded.
C22_Completes ==
    /\ [](pc # "idle" => NoRaise /\ Rank >= 0 /\ ENABLED <<Step>>_vars)
    /\ [][InnerIteration /\ OuterIteration]_vars
    /\ [][(pc # "idle" /\ pc' # "idle") => Rank' < Rank]_vars
    /\ [](Returned =>
            IF call.order_id \in DOMAIN orders
            THEN /\ call.order_id \in SeqToSet(QueueAt(call.side, call.price))
                 /\ orders[call.order_id].quantity > 0
                 /\ orders[call.order_id].quantity
                       = call.quantity - TradedQuantity(trades)
            ELSE TradedQuantity(trades) = call.quantity)
    /\ (pc # "idle") ~> (pc = "idle")

\* An add_order has returned with its order resting after it traded, a
\* cancelled order of the opposite side having been swept out of its queue.
C22_Witness ==
    /\ Returned
    /\ call.order_id \in Queued
    /\ trades # <<>>
    /\ \E i \in order_map \ Queued :
          orders[i].is_cancelled /\ orders[i].side = Opposite(call.side)

====
